---- MODULE Spec2Model ----
(***************************************************************************)
(* serve-csv: a directory of CSV files, each with a JSON schema, served as *)
(* a read-only JSON API.  The model follows the final program              *)
(* (src/unnamed/part_002): the startup pass of main (dirFileNames,         *)
(* matchDataPaths, readSchema, validate, readCSVData, Insert), then the    *)
(* HTTP handler (GetAll / GetNth, jsonAll / jsonNth).                      *)
(*                                                                         *)
(* Go strings are TLA+ strings (Len, SubSeq and \o act on them), so the    *)
(* suffix tests, the path slicing, strconv.ParseInt and the error texts    *)
(* are computed as the code computes them.  A Go int64 is a record         *)
(* [neg, mag] with mag its magnitude in canonical decimal digits, because  *)
(* the 64-bit range does not fit the model checker's integers.             *)
(***************************************************************************)
EXTENDS Integers, Sequences, FiniteSets, Bags, TLC

\* ------------------------------------------------------------------ bounds
MaxFiles == 4
MaxCols == 2
MaxRows == 2
NReq == 2

\* ----------------------------------------------------------------- strings
CharAt(s, i) == SubSeq(s, i, i)

MaxOf(S) == CHOOSE x \in S : \A y \in S : y <= x
MinOf(S) == CHOOSE x \in S : \A y \in S : x <= y

\* strings.HasSuffix
HasSuffix(s, suffix) ==
    /\ Len(s) >= Len(suffix)
    /\ SubSeq(s, Len(s) - Len(suffix) + 1, Len(s)) = suffix

\* s[:len(s)-n]
DropLast(s, n) == SubSeq(s, 1, Len(s) - n)

Digits == {"0", "1", "2", "3", "4", "5", "6", "7", "8", "9"}

DigitVal(c) ==
    CASE c = "0" -> 0 [] c = "1" -> 1 [] c = "2" -> 2 [] c = "3" -> 3
      [] c = "4" -> 4 [] c = "5" -> 5 [] c = "6" -> 6 [] c = "7" -> 7
      [] c = "8" -> 8 [] c = "9" -> 9

DigitChar(d) == CharAt("0123456789", d + 1)

\* The byte order of the characters the model's strings are made of.
ByteOrder == "+-./0123456789abcdefghijklmnopqrstuvwxyz"

Ord(c) == CHOOSE i \in 1..Len(ByteOrder) : CharAt(ByteOrder, i) = c

\* s < t in Go's (bytewise) string order, as sort.Strings compares
StrLess(s, t) ==
    \E i \in 1..(Len(t)) :
        /\ \A j \in 1..(i - 1) : j <= Len(s) /\ CharAt(s, j) = CharAt(t, j)
        /\ \/ i = Len(s) + 1
           \/ i <= Len(s) /\ Ord(CharAt(s, i)) < Ord(CharAt(t, i))

\* a < b for magnitudes in canonical decimal digits
MagLess(a, b) ==
    \/ Len(a) < Len(b)
    \/ Len(a) = Len(b) /\ StrLess(a, b)

\* fmt's %d of a small int
RECURSIVE UItoa(_)
UItoa(n) == IF n < 10 THEN DigitChar(n) ELSE UItoa(n \div 10) \o DigitChar(n % 10)

Itoa(n) == IF n < 0 THEN "-" \o UItoa(-n) ELSE UItoa(n)

\* strconv.Quote, for the strings of the model (no character needs escaping)
Quote(s) == "\"" \o s \o "\""

\* ------------------------------------------------------- strconv.ParseInt
ErrSyntax == "invalid syntax"
ErrRange == "value out of range"

\* 1<<bitSize - 1 and 1<<(bitSize-1), in decimal digits
MaxUint(bitSize) == IF bitSize = 32 THEN "4294967295" ELSE "18446744073709551615"
Cutoff(bitSize) == IF bitSize = 32 THEN "2147483648" ELSE "9223372036854775808"

\* strconv.ParseUint's loop from character i on, n the value so far: the
\* first character that is no digit is a syntax error, the first digit that
\* takes the value over 1<<bitSize - 1 a range error.
RECURSIVE ParseUintFrom(_, _, _, _)
ParseUintFrom(s, i, n, bitSize) ==
    IF i > Len(s) THEN [err |-> "", mag |-> n]
    ELSE LET c == CharAt(s, i)
             n1 == IF n = "0" THEN c ELSE n \o c
         IN  IF c \notin Digits THEN [err |-> ErrSyntax, mag |-> "0"]
             ELSE IF MagLess(MaxUint(bitSize), n1)
                  THEN [err |-> ErrRange, mag |-> MaxUint(bitSize)]
                  ELSE ParseUintFrom(s, i + 1, n1, bitSize)

ParseUint(s, bitSize) ==
    IF s = "" THEN [err |-> ErrSyntax, mag |-> "0"]
    ELSE ParseUintFrom(s, 1, "0", bitSize)

\* strconv.ParseInt(s, 10, bitSize): [err, neg, mag]; err = "" on success
ParseInt(s, bitSize) ==
    IF s = "" THEN [err |-> ErrSyntax, neg |-> FALSE, mag |-> "0"]
    ELSE LET signed == CharAt(s, 1) \in {"+", "-"}
             neg == CharAt(s, 1) = "-"
             un == ParseUint(IF signed THEN SubSeq(s, 2, Len(s)) ELSE s, bitSize)
         IN  IF un.err = ErrSyntax THEN [err |-> ErrSyntax, neg |-> FALSE, mag |-> "0"]
             ELSE IF un.err = ErrRange THEN [err |-> ErrRange, neg |-> FALSE, mag |-> "0"]
             ELSE IF ~neg /\ ~MagLess(un.mag, Cutoff(bitSize))
                  THEN [err |-> ErrRange, neg |-> FALSE, mag |-> "0"]
             ELSE IF neg /\ MagLess(Cutoff(bitSize), un.mag)
                  THEN [err |-> ErrRange, neg |-> FALSE, mag |-> "0"]
             ELSE [err |-> "", neg |-> neg /\ un.mag # "0", mag |-> un.mag]

\* (*strconv.NumError).Error()
NumErrorText(s, err) == "strconv.ParseInt: parsing " \o Quote(s) \o ": " \o err

\* strconv.FormatInt(v, 10), which fmt's %d and encoding/json print an int64 with
FormatInt(v) == IF v.neg THEN "-" \o v.mag ELSE v.mag

\* int(index) of a parsed 32-bit value, as a number of the model; the digits
\* are accumulated below zero so that -1<<31 is reached without overflow.
RECURSIVE NegAccum(_, _, _)
NegAccum(mag, i, acc) ==
    IF i > Len(mag) THEN acc
    ELSE NegAccum(mag, i + 1, acc * 10 - DigitVal(CharAt(mag, i)))

ToInt(v) == IF v.neg THEN NegAccum(v.mag, 1, 0) ELSE - NegAccum(v.mag, 1, 0)

\* ------------------------------------------------------------- environment
\* The directory served and the root argument main is given for it.
Root == "d/"

\* The names a listing is drawn from: two data files, their schemas, and a
\* file that is neither.
Names == {"a.csv", "a.json", "b.csv", "b.json", "n.txt"}

FieldNames == {"b", "a"}
TypeNames == {"int", "string", "bool"}
Cells == {"-3", "x"}

SeqsUpTo(S, n) == UNION {[1..k -> S] : k \in 0..n}

\* What os.Open + Readdirnames can yield: distinct names, in any order.
Listings == {l \in SeqsUpTo(Names, MaxFiles) : \A i, j \in 1..Len(l) : i # j => l[i] # l[j]}

\* What ioutil.ReadFile + json.Unmarshal yield for a schema file: an error, or
\* a RawSchema with whatever fields and types the document lists.
DecodeError == [err |-> "unexpected end of JSON input", Fields |-> <<>>, Types |-> <<>>]

RawSchemas ==
    {[err |-> "", Fields |-> f, Types |-> t] :
        f \in SeqsUpTo(FieldNames, MaxCols), t \in SeqsUpTo(TypeNames, MaxCols)}

\* What os.Open + csv.Reader.ReadAll yield for a data file: an error, or the
\* records.  The reader (FieldsPerRecord = 0) holds every record to the field
\* count of the first, so the records it returns are of one width, >= 1.
CsvError == [err |-> "record on line 2: wrong number of fields", records |-> <<>>]

CsvRecords ==
    {[err |-> "", records |-> rs] :
        rs \in UNION {SeqsUpTo([1..w -> Cells], MaxRows) : w \in 1..MaxCols}}

\* Data files of one cell, for the edges of the int64 range and of the syntax
\* strconv.ParseInt takes.
EdgeCells ==
    {"9223372036854775807", "9223372036854775808", "-9223372036854775808",
     "-9223372036854775809", "+7", "-0", "007", "", "-", "3x"}

EdgeRecords == {[err |-> "", records |-> << <<c>> >>] : c \in EdgeCells}

\* The few documents and data files of the whole-program specification.
FewSchemas ==
    { DecodeError,
      [err |-> "", Fields |-> <<"b">>, Types |-> <<"string">>],
      [err |-> "", Fields |-> <<"b">>, Types |-> <<"int">>],
      [err |-> "", Fields |-> <<"b">>, Types |-> <<"bool">>],
      [err |-> "", Fields |-> <<"b", "a">>, Types |-> <<"int">>] }

FewRecords ==
    { CsvError,
      [err |-> "", records |-> << <<"x">> >>],
      [err |-> "", records |-> << <<"x", "x">> >>] }

\* The request paths clients send: the routes a and c, whole and by index,
\* a path of one numeric segment, and a trailing slash.
IndexTexts == {Itoa(i) : i \in 0..MaxRows} \cup {"-1", "2147483648"}

Paths ==
    {"/a", "/c", "/c/0", "/5", "/a/"} \cup {"/a/" \o t : t \in IndexTexts}

\* ------------------------------------------------------------------- state
VARIABLES
    dirOk,          \* whether the directory can be opened and listed
    listing,        \* the names the directory holds, in the order listed
    disk,           \* path -> what reading that file yields
    pc,             \* where main is
    fileNames,      \* main's fileNames
    dataPaths,      \* main's dataPaths
    next,           \* the index (from 1) of the dataPath the loop is at
    raw,            \* main's raw (the loop's RawSchema)
    schema,         \* main's schema
    data,           \* main's data
    routes,         \* DataRoutes.routes: route -> CSVData
    fatal,          \* what log.Fatal printed, "" while the process lives
    listenerStarted,\* whether http.ListenAndServe was ever called
    req             \* the bag of requests in flight, one per handler goroutine

vars ==
    << dirOk, listing, disk, pc, fileNames, dataPaths, next, raw, schema,
       data, routes, fatal, listenerStarted, req >>

env == << dirOk, listing, disk >>

\* ---------------------------------------------------------------- discovery
\* dirFileNames
dirFileNames(ok, names) ==
    IF ok THEN [err |-> "", names |-> names]
    ELSE [err |-> "open " \o Root \o ": no such file or directory", names |-> <<>>]

StripAll(paths, suffix) ==
    LET kept == SelectSeq(paths, LAMBDA p : HasSuffix(p, suffix))
    IN  [i \in 1..Len(kept) |-> DropLast(kept[i], Len(suffix))]

\* the inner loop of matchDataPaths: the dataPaths csv makes with jsons
PairsOf(root, csv, jsons) ==
    LET same == SelectSeq(jsons, LAMBDA json : csv = json)
    IN  [k \in 1..Len(same) |->
            [route |-> csv, csv |-> root \o csv \o ".csv", json |-> root \o same[k] \o ".json"]]

\* the outer loop of matchDataPaths from csvs[i] on
RECURSIVE MatchFrom(_, _, _, _, _)
MatchFrom(root, csvs, jsons, i, results) ==
    IF i > Len(csvs) THEN [err |-> "", results |-> results]
    ELSE LET found == PairsOf(root, csvs[i], jsons)
         IN  IF Len(found) = 0
             THEN [err |-> "CSV file " \o csvs[i] \o " has no corresponding "
                              \o csvs[i] \o ".json schema",
                   results |-> <<>>]
             ELSE MatchFrom(root, csvs, jsons, i + 1, results \o found)

\* matchDataPaths with its loops exchanged (for each schema, the data file of
\* its name): the pairs then come in the order of the schema files.
matchDataPathsBySchema(root, paths) ==
    LET csvs == StripAll(paths, ".csv")
        jsons == StripAll(paths, ".json")
        lone == {i \in 1..Len(csvs) : Len(PairsOf(root, csvs[i], jsons)) = 0}
        first == CHOOSE i \in lone : \A j \in lone : i <= j
        kept == SelectSeq(jsons, LAMBDA json : \E i \in 1..Len(csvs) : csvs[i] = json)
    IN  IF lone # {}
        THEN [err |-> "CSV file " \o csvs[first] \o " has no corresponding "
                         \o csvs[first] \o ".json schema",
              results |-> <<>>]
        ELSE [err |-> "",
              results |-> [k \in 1..Len(kept) |->
                              [route |-> kept[k], csv |-> root \o kept[k] \o ".csv",
                               json |-> root \o kept[k] \o ".json"]]]

\* matchDataPaths
matchDataPaths(root, paths) ==
    MatchFrom(root, StripAll(paths, ".csv"), StripAll(paths, ".json"), 1, <<>>)

\* ------------------------------------------------------------------- schema
\* readSchema
readSchema(path, files) ==
    IF path \in DOMAIN files THEN files[path]
    ELSE [err |-> "open " \o path \o ": no such file or directory",
          Fields |-> <<>>, Types |-> <<>>]

\* the switch of validate
SchemaTypeOf(typeString) ==
    CASE typeString = "int" -> "INT"
      [] typeString = "string" -> "STRING"
      [] OTHER -> ""

\* validate with its two checks exchanged: the types first, the lengths after.
validateTypesFirst(rawSchema) ==
    LET fieldsLen == Len(rawSchema.Fields)
        typesLen == Len(rawSchema.Types)
        bad == {i \in 1..typesLen : SchemaTypeOf(rawSchema.Types[i]) = ""}
    IN  IF bad # {}
        THEN [err |-> "Unrecognized schema type: "
                         \o rawSchema.Types[CHOOSE i \in bad : \A j \in bad : i <= j],
              Fields |-> <<>>, Types |-> <<>>]
        ELSE IF fieldsLen # typesLen
        THEN [err |-> "Mismatched fields and types lengths: " \o Itoa(fieldsLen)
                         \o " " \o Itoa(typesLen),
              Fields |-> <<>>, Types |-> <<>>]
        ELSE [err |-> "", Fields |-> rawSchema.Fields,
              Types |-> [i \in 1..typesLen |-> SchemaTypeOf(rawSchema.Types[i])]]

\* validate: [err, Fields, Types]; err = "" and the Schema on success
validate(rawSchema) ==
    LET fieldsLen == Len(rawSchema.Fields)
        typesLen == Len(rawSchema.Types)
        bad == {i \in 1..typesLen : SchemaTypeOf(rawSchema.Types[i]) = ""}
    IN  IF fieldsLen # typesLen
        THEN [err |-> "Mismatched fields and types lengths: " \o Itoa(fieldsLen)
                         \o " " \o Itoa(typesLen),
              Fields |-> <<>>, Types |-> <<>>]
        ELSE IF bad # {}
        THEN [err |-> "Unrecognized schema type: "
                         \o rawSchema.Types[CHOOSE i \in bad : \A j \in bad : i <= j],
              Fields |-> <<>>, Types |-> <<>>]
        ELSE [err |-> "", Fields |-> rawSchema.Fields,
              Types |-> [i \in 1..typesLen |-> SchemaTypeOf(rawSchema.Types[i])]]

\* --------------------------------------------------------------------- rows
\* A cell of a row: an int64 or a string, as the interface{} holds it.
IntCell(v) == [t |-> "int64", neg |-> v.neg, mag |-> v.mag, s |-> ""]
StrCell(s) == [t |-> "string", neg |-> FALSE, mag |-> "0", s |-> s]

\* the inner loop of readCSVData with the ParseInt error dropped: a cell that
\* is no integer is kept as its text.
ConvertRecordKeepRaw(record, types) ==
    [err |-> "",
     row |-> [i \in 1..Len(types) |->
                 IF types[i] = "INT" /\ ParseInt(record[i], 64).err = ""
                 THEN IntCell(ParseInt(record[i], 64))
                 ELSE StrCell(record[i])]]

\* the inner loop of readCSVData: the row of one record, or the first error
ConvertRecord(record, types) ==
    LET parsed == [i \in 1..Len(types) |-> ParseInt(record[i], 64)]
        bad == {i \in 1..Len(types) : types[i] = "INT" /\ parsed[i].err # ""}
        first == CHOOSE i \in bad : \A j \in bad : i <= j
    IN  IF bad # {}
        THEN [err |-> NumErrorText(record[first], parsed[first].err), row |-> <<>>]
        ELSE [err |-> "",
              row |-> [i \in 1..Len(types) |->
                          IF types[i] = "INT" THEN IntCell(parsed[i])
                          ELSE StrCell(record[i])]]

\* the outer loop of readCSVData from records[i] on (rowI = i - 1)
RECURSIVE ReadRows(_, _, _, _, _)
ReadRows(path, records, types, i, rows) ==
    IF i > Len(records) THEN [err |-> "", rows |-> rows]
    ELSE LET record == records[i]
             recordLen == Len(record)
             schemaLen == Len(types)
             conv == ConvertRecord(record, types)
         IN  IF recordLen # schemaLen
             THEN [err |-> path \o ": row " \o Itoa(i - 1)
                              \o ": bad record length, expected " \o Itoa(schemaLen)
                              \o ", got " \o Itoa(recordLen),
                   rows |-> <<>>]
             ELSE IF conv.err # ""
             THEN [err |-> path \o ": row " \o Itoa(i - 1) \o ": " \o conv.err,
                   rows |-> <<>>]
             ELSE ReadRows(path, records, types, i + 1, Append(rows, conv.row))

\* the zero values of main's raw, schema and data
NoRaw == [err |-> "", Fields |-> <<>>, Types |-> <<>>]
NoSchema == [Fields |-> <<>>, Types |-> <<>>]
NoData == [rows |-> <<>>, Schema |-> NoSchema]

\* readCSVData: [err, data]; err = "" and the CSVData on success
readCSVData(path, sch, files) ==
    LET file == IF path \in DOMAIN files THEN files[path]
                ELSE [err |-> "open " \o path \o ": no such file or directory",
                      records |-> <<>>]
        read == ReadRows(path, file.records, sch.Types, 1, <<>>)
    IN  IF file.err # "" THEN [err |-> file.err, data |-> NoData]
        ELSE IF read.err # "" THEN [err |-> read.err, data |-> NoData]
        ELSE [err |-> "", data |-> [rows |-> read.rows, Schema |-> sch]]

\* --------------------------------------------------------------------- JSON
\* What json.Marshal writes, kept as the sequence of its parts: an object is
\* the sequence of its members [key, value] in the order written, an array
\* the sequence of its elements.
JsonNil == [kind |-> "nil", items |-> <<>>]

\* json.Marshal of a cell: an int64 is written as a number, a string as a string
JsonValue(cell) ==
    IF cell.t = "int64" THEN [t |-> "number", text |-> FormatInt(cell)]
    ELSE [t |-> "string", text |-> cell.s]

\* the keys of a map in the order encoding/json writes them: sorted
RECURSIVE SortedKeys(_)
SortedKeys(keys) ==
    IF keys = {} THEN <<>>
    ELSE LET least == CHOOSE k \in keys : \A other \in keys \ {k} : StrLess(k, other)
         IN  <<least>> \o SortedKeys(keys \ {least})

\* json.Marshal of a map[string]interface{}
MarshalMap(mp) ==
    LET keys == SortedKeys(DOMAIN mp)
    IN  [kind |-> "object",
         items |-> [i \in 1..Len(keys) |-> [key |-> keys[i], value |-> JsonValue(mp[keys[i]])]]]

\* the loop `for i, val := range row { mp[data.Schema.Fields[i]] = val }`:
\* a later column of the same field name overwrites an earlier one
RowMap(fields, row) ==
    [k \in {fields[i] : i \in 1..Len(row)} |->
        row[MaxOf({i \in 1..Len(row) : fields[i] = k})]]

\* jsonNth keeping the first column of a field name instead of the last.
jsonNthFirstWins(csvData, index) ==
    LET fields == csvData.Schema.Fields
        row == csvData.rows[index + 1]
    IN  IF index < 0 \/ index >= Len(csvData.rows)
        THEN [err |-> "index " \o Itoa(index) \o " out of bounds", json |-> JsonNil]
        ELSE [err |-> "",
              json |-> MarshalMap([k \in {fields[i] : i \in 1..Len(row)} |->
                                     row[MinOf({i \in 1..Len(row) : fields[i] = k})]])]

\* jsonNth writing one member per column, in the order of the columns, instead
\* of marshalling a map.
jsonNthInSchemaOrder(csvData, index) ==
    LET fields == csvData.Schema.Fields
        row == csvData.rows[index + 1]
    IN  IF index < 0 \/ index >= Len(csvData.rows)
        THEN [err |-> "index " \o Itoa(index) \o " out of bounds", json |-> JsonNil]
        ELSE [err |-> "",
              json |-> [kind |-> "object",
                        items |-> [i \in 1..Len(row) |->
                                      [key |-> fields[i], value |-> JsonValue(row[i])]]]]

\* CSVData.jsonNth: [err, json]; index counts from 0
jsonNth(csvData, index) ==
    IF index < 0 \/ index >= Len(csvData.rows)
    THEN [err |-> "index " \o Itoa(index) \o " out of bounds", json |-> JsonNil]
    ELSE [err |-> "",
          json |-> MarshalMap(RowMap(csvData.Schema.Fields, csvData.rows[index + 1]))]

\* jsonAll with rows made of length len(data.rows), not of that capacity: the
\* appended objects follow as many null ones.
jsonAllMakeLen(csvData) ==
    [kind |-> "array",
     items |-> [i \in 1..Len(csvData.rows) |-> JsonNil]
                  \o [i \in 1..Len(csvData.rows) |->
                         MarshalMap(RowMap(csvData.Schema.Fields, csvData.rows[i]))]]

\* CSVData.jsonAll
jsonAll(csvData) ==
    [kind |-> "array",
     items |-> [i \in 1..Len(csvData.rows) |->
                   MarshalMap(RowMap(csvData.Schema.Fields, csvData.rows[i]))]]

\* --------------------------------------------------------------- DataRoutes
\* NewDataRoutes: the empty map
NewDataRoutes == [route \in {} |-> NoData]

\* DataRoutes.Insert
Insert(rts, route, csvData) ==
    [r \in DOMAIN rts \cup {route} |-> IF r = route THEN csvData ELSE rts[r]]

\* DataRoutes.GetAll
GetAll(rts, route) ==
    IF route \notin DOMAIN rts
    THEN [err |-> "Unknown route: " \o route, json |-> JsonNil]
    ELSE [err |-> "", json |-> jsonAll(rts[route])]

\* DataRoutes.GetNth
GetNth(rts, route, index) ==
    IF route \notin DOMAIN rts
    THEN [err |-> "Unknown route: " \o route, json |-> JsonNil]
    ELSE jsonNth(rts[route], index)

\* ------------------------------------------------------------------ handler
\* strings.Split(route, "/")'s last element: what follows the last "/"
LastPart(route) ==
    LET slashes == {i \in 1..Len(route) : CharAt(route, i) = "/"}
    IN  IF slashes = {} THEN route ELSE SubSeq(route, MaxOf(slashes) + 1, Len(route))

\* What the client gets: the status and body written, or panic # "" when the
\* handler panicked (net/http recovers it, writes nothing and drops the
\* connection; the process lives on).
NoResponse == [status |-> 0, body |-> JsonNil, panic |-> ""]
ErrorBody(err) == [kind |-> "text", items |-> <<"{\"error\": \"" \o err \o "\"}">>]

\* the function main registers with http.HandleFunc, for r.URL.Path = path
Handler(rts, path) ==
    LET route == SubSeq(path, 2, Len(path))
        lastPart == LastPart(route)
        index == ParseInt(lastPart, 32)
        cut == Len(route) - Len(lastPart) - 1
        got == IF index.err # "" THEN GetAll(rts, route)
               ELSE GetNth(rts, SubSeq(route, 1, cut), ToInt(index))
    IN  IF index.err = "" /\ cut < 0
        THEN [status |-> 0, body |-> JsonNil,
              panic |-> "runtime error: slice bounds out of range [:" \o Itoa(cut) \o "]"]
        ELSE IF got.err # ""
        THEN [status |-> 404, body |-> ErrorBody(got.err), panic |-> ""]
        ELSE [status |-> 200, body |-> got.json, panic |-> ""]

\* --------------------------------------------------------------------- main
\* log.Fatal
Fatal(msg) ==
    /\ pc' = "exited"
    /\ fatal' = msg

\* the head of the loop leaving one dataPath early
LoopHeadEarly(n, paths) == IF n >= Len(paths) THEN "listen" ELSE "readSchema"

\* the head of the loop over dataPaths
LoopHead(n, paths) == IF n > Len(paths) THEN "listen" ELSE "readSchema"

\* fileNames, err := dirFileNames(*dir)
DirFileNames ==
    /\ pc = "dirFileNames"
    /\ LET r == dirFileNames(dirOk, listing)
       IN  IF r.err # ""
           THEN Fatal(r.err) /\ UNCHANGED fileNames
           ELSE pc' = "matchDataPaths" /\ fileNames' = r.names /\ UNCHANGED fatal
    /\ UNCHANGED << env, dataPaths, next, raw, schema, data, routes, listenerStarted, req >>

\* dataPaths, err := matchDataPaths(*dir, fileNames); routes := NewDataRoutes()
MatchDataPaths ==
    /\ pc = "matchDataPaths"
    /\ LET r == matchDataPaths(Root, fileNames)
       IN  IF r.err # ""
           THEN Fatal(r.err) /\ UNCHANGED << dataPaths, routes >>
           ELSE /\ pc' = LoopHead(1, r.results)
                /\ dataPaths' = r.results
                /\ routes' = NewDataRoutes
                /\ UNCHANGED fatal
    /\ UNCHANGED << env, fileNames, next, raw, schema, data, listenerStarted, req >>

\* raw, err := readSchema(path.json)
ReadSchema ==
    /\ pc = "readSchema"
    /\ LET r == readSchema(dataPaths[next].json, disk)
       IN  IF r.err # ""
           THEN Fatal(r.err) /\ UNCHANGED raw
           ELSE pc' = "validate" /\ raw' = r /\ UNCHANGED fatal
    /\ UNCHANGED << env, fileNames, dataPaths, next, schema, data, routes, listenerStarted, req >>

\* schema, err := raw.validate()
Validate ==
    /\ pc = "validate"
    /\ LET r == validate(raw)
       IN  IF r.err # ""
           THEN /\ Fatal("Error validating " \o dataPaths[next].json \o ": " \o r.err)
                /\ UNCHANGED schema
           ELSE /\ pc' = "readCSVData"
                /\ schema' = [Fields |-> r.Fields, Types |-> r.Types]
                /\ UNCHANGED fatal
    /\ UNCHANGED << env, fileNames, dataPaths, next, raw, data, routes, listenerStarted, req >>

\* data, err := readCSVData(path.csv, schema)
ReadCSVData ==
    /\ pc = "readCSVData"
    /\ LET r == readCSVData(dataPaths[next].csv, schema, disk)
       IN  IF r.err # ""
           THEN Fatal(r.err) /\ UNCHANGED data
           ELSE pc' = "Insert" /\ data' = r.data /\ UNCHANGED fatal
    /\ UNCHANGED << env, fileNames, dataPaths, next, raw, schema, routes, listenerStarted, req >>

\* routes.Insert(path.route, *data), and on to the next dataPath: the loop's
\* raw, schema and data go out of scope
InsertRoute ==
    /\ pc = "Insert"
    /\ routes' = Insert(routes, dataPaths[next].route, data)
    /\ next' = next + 1
    /\ pc' = LoopHead(next + 1, dataPaths)
    /\ raw' = NoRaw
    /\ schema' = NoSchema
    /\ data' = NoData
    /\ UNCHANGED << env, fileNames, dataPaths, fatal, listenerStarted, req >>

\* http.HandleFunc(...); log.Fatal(http.ListenAndServe(":"+*port, nil)): the
\* port is bound and requests are served, or it is not and main exits
ListenAndServe ==
    /\ pc = "listen"
    /\ \E bound \in BOOLEAN :
          IF bound
          THEN pc' = "serving" /\ listenerStarted' = TRUE /\ UNCHANGED fatal
          ELSE /\ Fatal("listen tcp :1234: bind: address already in use")
               /\ UNCHANGED listenerStarted
    /\ UNCHANGED << env, fileNames, dataPaths, next, raw, schema, data, routes, req >>

\* net/http starts a goroutine for a request to path, while fewer than limit
\* are in flight
ReceiveUnder(limit, path) ==
    /\ pc = "serving"
    /\ BagCardinality(req) < limit
    /\ req' = req (+) SetToBag({[pc |-> "handling", path |-> path, resp |-> NoResponse]})
    /\ UNCHANGED << env, pc, fileNames, dataPaths, next, raw, schema, data, routes,
                    fatal, listenerStarted >>

Receive(path) == ReceiveUnder(NReq, path)

\* requests that arrive one at a time
ReceiveAlone(path) == ReceiveUnder(1, path)

\* the handler registering the route of a request it does not know
HandleRegistering(q) ==
    /\ pc = "serving"
    /\ q.pc = "handling"
    /\ req' = (req (-) SetToBag({q}))
                 (+) SetToBag({[pc |-> "done", path |-> q.path,
                                resp |-> Handler(routes, q.path)]})
    /\ routes' = IF SubSeq(q.path, 2, Len(q.path)) \in DOMAIN routes THEN routes
                 ELSE Insert(routes, SubSeq(q.path, 2, Len(q.path)), NoData)
    /\ UNCHANGED << env, pc, fileNames, dataPaths, next, raw, schema, data,
                    fatal, listenerStarted >>

\* the handler runs for request q: it reads routes and writes the response
Handle(q) ==
    /\ pc = "serving"
    /\ q.pc = "handling"
    /\ req' = (req (-) SetToBag({q}))
                 (+) SetToBag({[pc |-> "done", path |-> q.path,
                                resp |-> Handler(routes, q.path)]})
    /\ UNCHANGED << env, pc, fileNames, dataPaths, next, raw, schema, data, routes,
                    fatal, listenerStarted >>

\* the client has the response of request q; the goroutine is gone
Complete(q) ==
    /\ pc = "serving"
    /\ q.pc = "done"
    /\ req' = req (-) SetToBag({q})
    /\ UNCHANGED << env, pc, fileNames, dataPaths, next, raw, schema, data, routes,
                    fatal, listenerStarted >>

Startup ==
    \/ DirFileNames
    \/ MatchDataPaths
    \/ ReadSchema
    \/ Validate
    \/ ReadCSVData
    \/ InsertRoute
    \/ ListenAndServe

Next ==
    \/ Startup
    \/ \E path \in Paths : Receive(path)
    \/ \E q \in BagToSet(req) : Handle(q)
    \/ \E q \in BagToSet(req) : Complete(q)

NextAlone ==
    \/ Startup
    \/ \E path \in Paths : ReceiveAlone(path)
    \/ \E q \in BagToSet(req) : Handle(q)
    \/ \E q \in BagToSet(req) : Complete(q)

\* ------------------------------------------------------------ initial states
\* The files the startup pass can open: the data and schema files of the base
\* names that have both (a data file without a schema stops main before any
\* file is read, and a schema without a data file is never read).
Paired(l) ==
    {n \in {l[i] : i \in 1..Len(l)} :
        \/ HasSuffix(n, ".csv")
              /\ \E i \in 1..Len(l) : l[i] = DropLast(n, Len(".csv")) \o ".json"
        \/ HasSuffix(n, ".json")
              /\ \E i \in 1..Len(l) : l[i] = DropLast(n, Len(".json")) \o ".csv"}

Disks(l, schemas, records) ==
    LET js == {n \in Paired(l) : HasSuffix(n, ".json")}
        cs == {n \in Paired(l) : HasSuffix(n, ".csv")}
    IN  {[p \in {Root \o n : n \in js \cup cs} |->
             IF p \in {Root \o n : n \in js} THEN dj[SubSeq(p, Len(Root) + 1, Len(p))]
             ELSE dc[SubSeq(p, Len(Root) + 1, Len(p))]] :
           dj \in [js -> schemas], dc \in [cs -> records]}

InitMain ==
    /\ pc = "dirFileNames"
    /\ fileNames = <<>>
    /\ dataPaths = <<>>
    /\ next = 1
    /\ raw = NoRaw
    /\ schema = NoSchema
    /\ data = NoData
    /\ routes = NewDataRoutes
    /\ fatal = ""
    /\ listenerStarted = FALSE
    /\ req = EmptyBag

InitEnv(listings, schemas, records) ==
    /\ dirOk \in BOOLEAN
    /\ listing \in (IF dirOk THEN listings ELSE {<<>>})
    /\ disk \in Disks(listing, schemas, records)

\* The whole program over every listing, with a few documents and data files.
Init == InitEnv(Listings, FewSchemas, FewRecords) /\ InitMain

Spec == Init /\ [][Next]_vars

\* One data file and its schema, with every document and every data file
\* within the bounds, and requests that arrive one at a time.
InitData ==
    /\ InitEnv({<<"a.json", "a.csv">>}, RawSchemas \cup {DecodeError},
               CsvRecords \cup EdgeRecords \cup {CsvError})
    /\ InitMain

SpecData == InitData /\ [][NextAlone]_vars

\* =================================================================== claims
\* What the claims speak of, stated from the served directory and the request
\* path alone, not from what main computed.

HasPrefix(s, prefix) == Len(s) >= Len(prefix) /\ SubSeq(s, 1, Len(prefix)) = prefix

\* the digits of a literal, after its sign
Unsigned(s) == IF s # "" /\ CharAt(s, 1) \in {"+", "-"} THEN SubSeq(s, 2, Len(s)) ELSE s

\* s is a base-10 integer literal: an optional sign, then digits
IsIntLiteral(s) ==
    /\ Unsigned(s) # ""
    /\ \A i \in 1..Len(Unsigned(s)) : CharAt(Unsigned(s), i) \in Digits

\* the magnitude of a literal without its leading zeros
Magnitude(s) ==
    LET u == Unsigned(s)
        nz == {i \in 1..Len(u) : CharAt(u, i) # "0"}
    IN  IF nz = {} THEN "0" ELSE SubSeq(u, MinOf(nz), Len(u))

\* the decimal text of the integer a literal denotes
Canonical(s) ==
    IF CharAt(s, 1) = "-" /\ Magnitude(s) # "0" THEN "-" \o Magnitude(s) ELSE Magnitude(s)

\* s denotes an integer of the signed 64-bit range
IsInt64Text(s) ==
    /\ IsIntLiteral(s)
    /\ IF CharAt(s, 1) = "-"
       THEN ~MagLess("9223372036854775808", Magnitude(s))
       ELSE MagLess(Magnitude(s), "9223372036854775808")

\* the literal s denotes an integer i with 0 <= i < n
DenotesIndexBelow(s, n) == \E i \in 0..(n - 1) : Canonical(s) = Itoa(i)

ListedNames == {listing[i] : i \in 1..Len(listing)}

\* the base names of the data files, in the order the directory lists them
RECURSIVE DataFilesOf(_)
DataFilesOf(l) ==
    IF l = <<>> THEN <<>>
    ELSE IF HasSuffix(Head(l), ".csv")
         THEN <<SubSeq(Head(l), 1, Len(Head(l)) - 4)>> \o DataFilesOf(Tail(l))
         ELSE DataFilesOf(Tail(l))

DataFiles == DataFilesOf(listing)
DataFileSet == {DataFiles[i] : i \in 1..Len(DataFiles)}
Unmatched == {b \in DataFileSet : (b \o ".json") \notin ListedNames}

SchemaDocOf(b) == disk[Root \o b \o ".json"]
DataFileOf(b) == disk[Root \o b \o ".csv"]

\* the faults of a schema document
LengthMismatch(doc) == Len(doc.Fields) # Len(doc.Types)
UnknownTypes(doc) == {i \in 1..Len(doc.Types) : doc.Types[i] \notin {"int", "string"}}
SchemaFault(doc) == doc.err # "" \/ LengthMismatch(doc) \/ UnknownTypes(doc) # {}

\* the records (from 1) of a data file that a well-formed schema rejects
BadRows(doc, file) ==
    {r \in 1..Len(file.records) :
        \/ Len(file.records[r]) # Len(doc.Types)
        \/ \E i \in 1..Len(doc.Types) :
              doc.Types[i] = "int" /\ ~IsInt64Text(file.records[r][i])}

DataFault(doc, file) == file.err # "" \/ BadRows(doc, file) # {}

\* some load-time fault is there to be met
LoadFault ==
    \/ ~dirOk
    \/ Unmatched # {}
    \/ \E b \in DataFileSet :
          SchemaFault(SchemaDocOf(b))
             \/ DataFault(SchemaDocOf(b), DataFileOf(b))

Done == {q \in BagToSet(req) : q.pc = "done"}

\* the path's segments: its route part and its last segment
RouteOf(path) == SubSeq(path, 2, Len(path))
LastSegment(path) == LastPart(RouteOf(path))
\* all segments but the last ("" when there is only one)
Parent(path) ==
    IF Len(RouteOf(path)) = Len(LastSegment(path)) THEN ""
    ELSE SubSeq(RouteOf(path), 1, Len(RouteOf(path)) - Len(LastSegment(path)) - 1)

\* the query a path addresses, by the decision rule of the resolver
IsRowQuery(path) == IsIntLiteral(LastSegment(path))
QueryRoute(path) == IF IsRowQuery(path) THEN Parent(path) ELSE RouteOf(path)

UnknownRoute(path) == QueryRoute(path) \notin DOMAIN routes
IndexOutOfBounds(path) ==
    /\ IsRowQuery(path)
    /\ ~UnknownRoute(path)
    /\ ~DenotesIndexBelow(LastSegment(path), Len(routes[QueryRoute(path)].rows))
ResolutionFails(path) == UnknownRoute(path) \/ IndexOutOfBounds(path)

IsErrorBody(body) ==
    /\ body.kind = "text"
    /\ HasPrefix(body.items[1], "{\"error\": \"")
    /\ HasSuffix(body.items[1], "\"}")

\* C1: every request whose resolution fails (unknown route, or index outside
\* [0, rowCount)) is answered 404 with a body {"error": "<message>"} and no
\* row; no request ends in a panic.
C1_FaultsAnswered404 ==
    \A q \in Done :
        /\ q.resp.panic = ""
        /\ ResolutionFails(q.path) =>
              q.resp.status = 404 /\ IsErrorBody(q.resp.body)

\* C2: the listener is started only when no load-time fault is there and every
\* data file's dataset is in the store; main is past its loading loop only
\* then, and a process that has exited never has a listener.
C2_ListenerOnlyAfterLoad ==
    /\ pc \in {"listen", "serving"} =>
          /\ ~LoadFault
          /\ next = Len(dataPaths) + 1
          /\ DataFileSet \subseteq DOMAIN routes
    /\ listenerStarted => pc = "serving"
    /\ pc = "exited" => fatal # "" /\ ~listenerStarted
    /\ LoadFault => ~listenerStarted

C2_Witness ==
    /\ pc = "exited"
    /\ LoadFault
    /\ DOMAIN routes # {}
    /\ Len(dataPaths) = 2

\* C5: a path whose last segment is an integer literal (any sign, any
\* magnitude) is a single-row query of the route before it: an unknown route
\* is UnknownRoute of that route, an index outside [0, rowCount) of a known
\* route is IndexOutOfBounds, any other index is answered with the row.  Every
\* other path is an all-rows query of the whole path.
C5_IntegerSegmentIsRowQuery ==
    \A q \in Done :
        IF IsRowQuery(q.path)
        THEN /\ q.resp.panic = ""
             /\ UnknownRoute(q.path) =>
                   /\ q.resp.status = 404
                   /\ q.resp.body = ErrorBody("Unknown route: " \o Parent(q.path))
             /\ IndexOutOfBounds(q.path) =>
                   /\ q.resp.status = 404
                   /\ q.resp.body = ErrorBody("index " \o Canonical(LastSegment(q.path))
                                                 \o " out of bounds")
             /\ ~ResolutionFails(q.path) =>
                   q.resp.status = 200 /\ q.resp.body.kind = "object"
        ELSE IF RouteOf(q.path) \in DOMAIN routes
             THEN q.resp.status = 200 /\ q.resp.body.kind = "array"
             ELSE /\ q.resp.status = 404
                  /\ q.resp.body = ErrorBody("Unknown route: " \o RouteOf(q.path))

\* C7: when every data file has its schema, discovery yields one pair per data
\* file, in the order the data files are listed, each under the file's base
\* name, and after the loading loop the store holds exactly those routes; when
\* some data file has none, main stops with that file's name and no pairs.
C7_OnePairPerDataFile ==
    /\ pc \in {"readSchema", "validate", "readCSVData", "Insert", "listen", "serving"} =>
          /\ Unmatched = {}
          /\ Len(dataPaths) = Len(DataFiles)
          /\ \A i \in 1..Len(DataFiles) :
                dataPaths[i] = [route |-> DataFiles[i],
                                csv |-> Root \o DataFiles[i] \o ".csv",
                                json |-> Root \o DataFiles[i] \o ".json"]
    /\ pc \in {"listen", "serving"} =>
          /\ DOMAIN routes = DataFileSet
          /\ Cardinality(DOMAIN routes) = Len(DataFiles)
    /\ dirOk /\ Unmatched # {} =>
          \/ pc \in {"dirFileNames", "matchDataPaths"}
          \/ /\ pc = "exited"
             /\ dataPaths = <<>>
             /\ \E b \in Unmatched :
                   fatal = "CSV file " \o b \o " has no corresponding " \o b \o ".json schema"

C7_Witness ==
    /\ pc = "serving"
    /\ Len(DataFiles) = 2
    /\ Cardinality(DOMAIN routes) = 2

\* C10: the store changes only in main's Insert step, before the listener is
\* started; while requests are served, whatever their interleaving, it stays
\* as it is and every response is the one the request gets from it alone.
C10_StoreFrozenWhileServing ==
    [][ /\ routes' # routes => pc = "Insert" /\ ~listenerStarted
        /\ listenerStarted =>
              /\ routes' = routes
              /\ \A q \in BagToSet(req') :
                    q.pc = "done" => q.resp = Handler(routes, q.path) ]_vars

C10_Witness ==
    /\ BagCardinality(req) = 2
    /\ \E q \in Done : q.resp.status = 200
    /\ \E q \in BagToSet(req) : q.pc = "handling"

\* ---------------------------------------------------- one data file (SpecData)
\* the index (from 0) an in-range row query denotes
IndexOf(path) ==
    CHOOSE i \in 0..(Len(routes[QueryRoute(path)].rows) - 1) :
        Canonical(LastSegment(path)) = Itoa(i)

KeysOf(object) == [i \in 1..Len(object.items) |-> object.items[i].key]

\* C3: for every dataset of the store and every i in [0, rowCount), GetNth
\* succeeds with the i-th element of GetAll's array, and so does the handler.
C3_NthIsElementOfAll ==
    /\ \A route \in DOMAIN routes :
          \A i \in 0..(Len(routes[route].rows) - 1) :
              /\ GetNth(routes, route, i).err = ""
              /\ GetNth(routes, route, i).json = GetAll(routes, route).json.items[i + 1]
    /\ \A q \in Done :
          IsRowQuery(q.path) /\ ~ResolutionFails(q.path) =>
              /\ q.resp.status = 200
              /\ q.resp.body =
                    Handler(routes, "/" \o QueryRoute(q.path)).body.items[IndexOf(q.path) + 1]

C3_Witness ==
    \E q \in Done :
        /\ q.path = "/a/1"
        /\ q.resp.status = 200
        /\ routes["a"].rows[1] # routes["a"].rows[2]
        /\ Len(routes["a"].Schema.Fields) = 2

\* the text a cell of the data file has in the JSON: the integer's decimal
\* text under "int", the text itself under "string"
CellText(type, cell) == IF type = "int" THEN Canonical(cell) ELSE cell

\* C4: GetAll's array has one object per record of the data file, in the
\* file's order; the keys of each are exactly the schema's field names and each
\* member holds a cell of that record from a column of that name.
C4_GetAllShape ==
    /\ \A route \in DOMAIN routes :
          LET out == GetAll(routes, route)
              doc == SchemaDocOf(route)
              file == DataFileOf(route)
          IN  /\ out.err = ""
              /\ out.json.kind = "array"
              /\ Len(out.json.items) = Len(routes[route].rows)
              /\ Len(out.json.items) = Len(file.records)
              /\ \A i \in 1..Len(out.json.items) :
                    /\ out.json.items[i].kind = "object"
                    /\ {m.key : m \in {out.json.items[i].items[k] :
                                          k \in 1..Len(out.json.items[i].items)}}
                          = {doc.Fields[k] : k \in 1..Len(doc.Fields)}
                    /\ \A k \in 1..Len(out.json.items[i].items) :
                          LET m == out.json.items[i].items[k]
                          IN  \E c \in 1..Len(doc.Fields) :
                                  /\ doc.Fields[c] = m.key
                                  /\ m.value.text = CellText(doc.Types[c], file.records[i][c])
    /\ \A q \in Done :
          ~IsRowQuery(q.path) /\ ~ResolutionFails(q.path) =>
              /\ q.resp.status = 200
              /\ q.resp.body = GetAll(routes, RouteOf(q.path)).json

C4_Witness ==
    \E q \in Done :
        /\ q.path = "/a"
        /\ q.resp.status = 200
        /\ Len(q.resp.body.items) = 2
        /\ routes["a"].Schema.Fields = <<"a", "a">>

\* the documents whose validation has been attempted
ValidationActed ==
    /\ next <= Len(dataPaths)
    /\ disk[dataPaths[next].json].err = ""
    /\ pc \in {"readCSVData", "Insert", "exited"}

\* C6: a RawSchema whose Types holds a string other than "int" and "string",
\* whatever the lengths of Fields and Types, fails validation with UnknownType
\* naming an offending value, and no Schema is produced.
C6_UnknownTypeWhateverLengths ==
    ValidationActed =>
        LET doc == disk[dataPaths[next].json]
        IN  UnknownTypes(doc) # {} =>
                /\ pc = "exited"
                /\ schema = NoSchema
                /\ \E i \in UnknownTypes(doc) :
                      fatal = "Error validating " \o dataPaths[next].json
                                 \o ": Unrecognized schema type: " \o doc.Types[i]

\* C6, amended: with Fields and Types of one length, a Types string other than
\* "int" and "string" fails validation with UnknownType naming the first such
\* string; with Fields and Types of different lengths, validation fails with
\* SchemaLengthMismatch carrying both lengths, whatever Types holds.  Neither
\* produces a Schema.
C6_UnknownTypeWhenLengthsAgree ==
    ValidationActed =>
        LET doc == disk[dataPaths[next].json]
        IN  /\ LengthMismatch(doc) =>
                /\ pc = "exited"
                /\ schema = NoSchema
                /\ fatal = "Error validating " \o dataPaths[next].json
                              \o ": Mismatched fields and types lengths: "
                              \o Itoa(Len(doc.Fields)) \o " " \o Itoa(Len(doc.Types))
            /\ ~LengthMismatch(doc) /\ UnknownTypes(doc) # {} =>
                /\ pc = "exited"
                /\ schema = NoSchema
                /\ fatal = "Error validating " \o dataPaths[next].json
                              \o ": Unrecognized schema type: "
                              \o doc.Types[MinOf(UnknownTypes(doc))]

C6_Witness ==
    /\ ValidationActed
    /\ disk[dataPaths[next].json].Types = <<"string", "bool">>
    /\ Len(disk[dataPaths[next].json].Fields) = 2
    /\ fatal = "Error validating d/a.json: Unrecognized schema type: bool"

\* every object GetAll and GetNth write for the rows of route
ObjectsOf(route) ==
    {GetAll(routes, route).json.items[i] : i \in 1..Len(routes[route].rows)}
       \cup {GetNth(routes, route, i - 1).json : i \in 1..Len(routes[route].rows)}

\* C8: the members of every object GetAll and GetNth write appear in schema
\* field order: of two members, the one written first has the field that
\* comes first in the schema's fields list.
C8_SchemaFieldOrder ==
    \A route \in DOMAIN routes :
        LET fields == SchemaDocOf(route).Fields
        IN  \A object \in ObjectsOf(route) :
                \A k, l \in 1..Len(object.items) :
                    k < l =>
                        \E c, d \in 1..Len(fields) :
                            /\ c < d
                            /\ fields[c] = object.items[k].key
                            /\ fields[d] = object.items[l].key

\* C8, amended: the members of every object GetAll and GetNth write appear in
\* ascending byte order of their keys, one member for each distinct field name
\* of the schema, holding the row's value in the last column of that name.
C8_SortedFieldOrder ==
    \A route \in DOMAIN routes :
        LET fields == SchemaDocOf(route).Fields
            types == SchemaDocOf(route).Types
            records == DataFileOf(route).records
            LastColumn(key) == MaxOf({c \in 1..Len(fields) : fields[c] = key})
            Written(i, object) ==
                /\ object.kind = "object"
                /\ \A k \in 1..(Len(object.items) - 1) :
                      StrLess(object.items[k].key, object.items[k + 1].key)
                /\ {object.items[k].key : k \in 1..Len(object.items)}
                      = {fields[c] : c \in 1..Len(fields)}
                /\ \A k \in 1..Len(object.items) :
                      object.items[k].value.text
                         = CellText(types[LastColumn(object.items[k].key)],
                                    records[i][LastColumn(object.items[k].key)])
        IN  \A i \in 1..Len(routes[route].rows) :
                /\ Written(i, GetAll(routes, route).json.items[i])
                /\ Written(i, GetNth(routes, route, i - 1).json)

C8_Witness ==
    \E q \in Done :
        /\ q.path = "/a/0"
        /\ q.resp.status = 200
        /\ routes["a"].Schema.Fields = <<"b", "a">>
        /\ KeysOf(q.resp.body) = <<"a", "b">>

\* C9: every dataset of the store has rows of the schema's width, an integer
\* in each Int column (the one the cell's text denotes) and the cell's text
\* itself in each String column; a data file with a record of the wrong length
\* or an Int cell that is no signed 64-bit integer puts no dataset in the store,
\* and main stops at the first such record.
C9_RowsMatchSchema ==
    /\ \A route \in DOMAIN routes :
          LET ds == routes[route]
              records == DataFileOf(route).records
          IN  /\ Len(ds.Schema.Fields) = Len(ds.Schema.Types)
              /\ Len(ds.rows) = Len(records)
              /\ \A r \in 1..Len(ds.rows) :
                    /\ Len(ds.rows[r]) = Len(ds.Schema.Types)
                    /\ \A c \in 1..Len(ds.rows[r]) :
                          IF ds.Schema.Types[c] = "INT"
                          THEN /\ ds.rows[r][c].t = "int64"
                               /\ IsInt64Text(records[r][c])
                               /\ FormatInt(ds.rows[r][c]) = Canonical(records[r][c])
                          ELSE /\ ds.Schema.Types[c] = "STRING"
                               /\ ds.rows[r][c].t = "string"
                               /\ ds.rows[r][c].s = records[r][c]
    /\ \A k \in 1..Len(dataPaths) :
          LET doc == disk[dataPaths[k].json]
              file == disk[dataPaths[k].csv]
          IN  ~SchemaFault(doc) /\ file.err = "" /\ BadRows(doc, file) # {} =>
                  /\ dataPaths[k].route \notin DOMAIN routes
                  /\ ~listenerStarted
                  /\ next = k /\ pc = "exited" =>
                        /\ data = NoData
                        /\ HasPrefix(fatal, dataPaths[k].csv \o ": row "
                                               \o Itoa(MinOf(BadRows(doc, file)) - 1) \o ": ")

C9_Witness ==
    /\ pc = "serving"
    /\ "a" \in DOMAIN routes
    /\ routes["a"].Schema.Types = <<"INT", "STRING">>
    /\ Len(routes["a"].rows) = 2

====
